---------------------------- MODULE Spec2Model ----------------------------
(***************************************************************************)
(* Model of the caddymultipart request-inspection stage.                   *)
(*                                                                         *)
(* The repository holds two variants of the stage:                         *)
(*   "Middleware"          src/multipart_inspect.go                        *)
(*   "MultipartInspector"  src/unnamed/part_000                            *)
(* Both are modelled; the variable `variant` says which one is loaded.     *)
(*                                                                         *)
(* Strings that the code parses are modelled as sequences of lexemes       *)
(* (words, "/", ";", "=", " ", ","), a request body as the sequence of     *)
(* its boundary lines and parts, so that parsing is computed, not assumed. *)
(***************************************************************************)
EXTENDS Naturals, Sequences, FiniteSets

VARIABLES
    variant,    \* which of the two handler types is loaded
    cfg,        \* the configuration fields (Output / LogFile, Next)
    phase,      \* module lifecycle: new -> provisioned -> active | refused
    w,          \* the sink writer (Middleware.w / MultipartInspector.Logger)
    sink,       \* the write calls the sink received, in order
    req         \* the requests: inputs, and the position of their ServeHTTP

vars == <<variant, cfg, phase, w, sink, req>>

-----------------------------------------------------------------------------
(* Bounds *)

MaxParts == 2

NumRequests == 2

-----------------------------------------------------------------------------
(* Lexemes and the string helpers of the Go standard library               *)

Specials == {"/", ";", "=", " ", ","}

IsToken(l) == l \notin Specials

\* strings.ToLower on one word
Lower(l) ==
    CASE l \in {"Multipart", "MULTIPART"} -> "multipart"
      [] l \in {"Form-Data", "FORM-DATA"} -> "form-data"
      [] l = "BOUNDARY" -> "boundary"
      [] OTHER -> l

ToLower(s) == [k \in 1..Len(s) |-> Lower(s[k])]

RECURSIVE TrimLeft(_)
TrimLeft(s) == IF s # <<>> /\ Head(s) = " " THEN TrimLeft(Tail(s)) ELSE s

RECURSIVE TrimRight(_)
TrimRight(s) ==
    IF s # <<>> /\ s[Len(s)] = " " THEN TrimRight(SubSeq(s, 1, Len(s) - 1)) ELSE s

TrimSpace(s) == TrimRight(TrimLeft(s))

\* the index of the first ";" of s, Len(s)+1 when there is none
RECURSIVE SemiAt(_, _)
SemiAt(s, k) ==
    IF k > Len(s) THEN k
    ELSE IF s[k] = ";" THEN k ELSE SemiAt(s, k + 1)

\* base, _, _ := strings.Cut(v, ";")
CutBase(v) == SubSeq(v, 1, SemiAt(v, 1) - 1)

-----------------------------------------------------------------------------
(* mime.ParseMediaType, as isMultipart and Request.ParseMultipartForm call it *)

NoMimeErr == "nil"

\* checkMediaTypeDisposition: token [ "/" token ], nothing after it
checkMediaTypeDisposition(mt) ==
    IF mt = <<>> \/ ~IsToken(mt[1]) THEN "mime: no media type"
    ELSE IF Len(mt) = 1 THEN NoMimeErr
    ELSE IF mt[2] # "/" THEN "mime: unexpected content after media subtype"
    ELSE IF Len(mt) < 3 \/ ~IsToken(mt[3]) THEN "mime: expected token after slash"
    ELSE IF Len(mt) > 3 THEN "mime: unexpected content after media subtype"
    ELSE NoMimeErr

\* consumeMediaParam: ";" ws token ws "=" ws value ; key "" when it does not match
consumeMediaParam(v) ==
    LET fail == [key |-> "", value |-> "", rest |-> v]
        r1 == TrimLeft(v)
    IN  IF r1 = <<>> \/ Head(r1) # ";" THEN fail
        ELSE LET r2 == TrimLeft(Tail(r1))
             IN  IF r2 = <<>> \/ ~IsToken(Head(r2)) THEN fail
                 ELSE LET r3 == TrimLeft(Tail(r2))
                      IN  IF r3 = <<>> \/ Head(r3) # "=" THEN fail
                          ELSE LET r4 == TrimLeft(Tail(r3))
                               IN  IF r4 = <<>> \/ ~IsToken(Head(r4)) THEN fail
                                   ELSE [key |-> Lower(Head(r2)),
                                         value |-> Head(r4),
                                         rest |-> Tail(r4)]

\* the parameter loop of ParseMediaType; params is a set of <<key, value>>
RECURSIVE parseParams(_, _, _)
parseParams(mt, v0, params) ==
    LET v == TrimLeft(v0)
    IN  IF v = <<>> THEN [mediatype |-> mt, params |-> params, err |-> NoMimeErr]
        ELSE LET p == consumeMediaParam(v)
             IN  IF p.key = ""
                 THEN IF TrimSpace(p.rest) = <<";">>
                      THEN [mediatype |-> mt, params |-> params, err |-> NoMimeErr]
                      ELSE [mediatype |-> mt, params |-> {},
                            err |-> "mime: invalid media parameter"]
                 ELSE IF \E kv \in params : kv[1] = p.key
                      THEN [mediatype |-> <<>>, params |-> {},
                            err |-> "mime: duplicate parameter name"]
                      ELSE parseParams(mt, p.rest, params \cup {<<p.key, p.value>>})

ParseMediaType(v) ==
    LET base == CutBase(v)
        mt == TrimSpace(ToLower(base))
        e == checkMediaTypeDisposition(mt)
    IN  IF e # NoMimeErr
        THEN [mediatype |-> <<>>, params |-> {}, err |-> e]
        ELSE parseParams(mt, SubSeq(v, Len(base) + 1, Len(v)), {})

FormData == <<"multipart", "/", "form-data">>

\* r.Header.Get("Content-Type"): "" when the header is absent
HeaderGet(h) == IF h.hasCT THEN h.ct ELSE <<>>

isMultipart_IgnoreErr(h) ==
    LET contentType == HeaderGet(h)
    IN  IF contentType = <<>> THEN FALSE
        ELSE ParseMediaType(contentType).mediatype = FormData

isMultipart(h) ==
    LET contentType == HeaderGet(h)
    IN  IF contentType = <<>> THEN FALSE
        ELSE LET p == ParseMediaType(contentType)
             IN  IF p.err # NoMimeErr THEN FALSE
                 ELSE p.mediatype = FormData

-----------------------------------------------------------------------------
(* Content-Type headers a client can send, built from their pieces         *)

HdrShapes == {"absent", "empty", "type", "type/", "type /sub", "type/sub"}

HdrTypes == {"multipart", "Multipart", "MULTIPART", "text"}

HdrSubs == {"form-data", "Form-Data", "FORM-DATA", "mixed", "plain"}

HdrPars == {"none", "boundary", "BOUNDARY", "tight", "trailing", "charset",
            "novalue", "dup", "badvalue"}

\* the parameter sections that follow the media-type grammar
ValidPars == {"none", "boundary", "BOUNDARY", "tight", "trailing", "charset"}

HdrGen == [shape : HdrShapes, typ : HdrTypes, sub : HdrSubs,
           pad : BOOLEAN, par : HdrPars]

RenderBase(g) ==
    CASE g.shape = "type/sub" -> <<g.typ, "/", g.sub>>
      [] g.shape = "type" -> <<g.typ>>
      [] g.shape = "type/" -> <<g.typ, "/">>
      [] g.shape = "type /sub" -> <<g.typ, " ", "/", g.sub>>
      [] OTHER -> <<>>

RenderPars(g) ==
    CASE g.par = "boundary" -> <<";", " ", "boundary", "=", "x">>
      [] g.par = "BOUNDARY" -> <<";", " ", "BOUNDARY", "=", "x">>
      [] g.par = "tight" -> <<";", "boundary", "=", "x">>
      [] g.par = "trailing" -> <<";">>
      [] g.par = "charset" ->
            <<";", " ", "charset", "=", "utf-8", ";", " ", "boundary", "=", "x">>
      [] g.par = "novalue" -> <<";", " ", "boundary">>
      [] g.par = "dup" ->
            <<";", " ", "boundary", "=", "x", ";", " ", "boundary", "=", "y">>
      [] g.par = "badvalue" -> <<";", " ", "boundary", "=", ",">>
      [] OTHER -> <<>>

Pad(g, s) == IF g.pad THEN <<" ">> \o s \o <<" ">> ELSE s

\* the header mapping of the request the client built from g
Render(g) ==
    CASE g.shape = "absent" -> [hasCT |-> FALSE, ct |-> <<>>]
      [] g.shape = "empty" -> [hasCT |-> TRUE, ct |-> IF g.pad THEN <<" ">> ELSE <<>>]
      [] OTHER -> [hasCT |-> TRUE, ct |-> Pad(g, RenderBase(g)) \o RenderPars(g)]

-----------------------------------------------------------------------------
(* Request bodies: boundary lines and parts, as the client framed them     *)

PartKinds ==
    { [name |-> "f1", hasFn |-> TRUE,  fn |-> "a.txt"],
      [name |-> "f2", hasFn |-> TRUE,  fn |-> "b.png"],
      [name |-> "f2", hasFn |-> TRUE,  fn |-> "dir/a.txt"],
      [name |-> "f1", hasFn |-> TRUE,  fn |-> ""],
      [name |-> "f1", hasFn |-> FALSE, fn |-> ""] }

NoPart == [name |-> "", hasFn |-> FALSE, fn |-> ""]

SeqsUpTo(S, n) == UNION {[1..k -> S] : k \in 0..n}

Framings == {"ok", "mismatch", "truncated"}

Delim(b) == [k |-> "delim", b |-> b, part |-> NoPart]

Close(b) == [k |-> "close", b |-> b, part |-> NoPart]

PartEl(p) == [k |-> "part", b |-> "", part |-> p]

\* the body stream of a form with these parts under this framing
MkBody(parts, framing) ==
    LET b == IF framing = "mismatch" THEN "y" ELSE "x"
    IN  [k \in 1..(2 * Len(parts)) |->
            IF k % 2 = 1 THEN Delim(b) ELSE PartEl(parts[k \div 2])]
        \o (IF framing = "truncated" THEN <<>> ELSE <<Close(b)>>)

-----------------------------------------------------------------------------
(* mime/multipart Reader.ReadForm, as Request.ParseMultipartForm calls it  *)

\* path/filepath.Base on the file names of the model
Base(fn) == IF fn = "dir/a.txt" THEN "a.txt" ELSE fn

\* Part.FileName
FileName(p) == IF p.hasFn /\ p.fn # "" THEN Base(p.fn) ELSE ""

\* Reader.NextPart in a loop: lines before the first boundary line are
\* preamble, a part follows each boundary line, the closing line ends the form
RECURSIVE ScanParts(_, _, _, _)
ScanParts(body, k, boundary, acc) ==
    IF k > Len(body)
    THEN [err |-> "multipart: NextPart: EOF", pos |-> Len(body), parts |-> <<>>]
    ELSE IF body[k].k = "close" /\ body[k].b = boundary
    THEN [err |-> "nil", pos |-> k, parts |-> acc]
    ELSE IF body[k].k = "delim" /\ body[k].b = boundary
    THEN IF k + 1 > Len(body)
         THEN [err |-> "multipart: NextPart: EOF", pos |-> Len(body), parts |-> <<>>]
         ELSE ScanParts(body, k + 2, boundary, Append(acc, body[k + 1].part))
    ELSE ScanParts(body, k + 1, boundary, acc)

\* the names of the fields that carry a file, in order of first arrival
RECURSIVE FileFields(_, _)
FileFields(parts, seen) ==
    IF parts = <<>> THEN <<>>
    ELSE LET p == Head(parts)
         IN  IF p.name = "" \/ FileName(p) = "" \/ p.name \in seen
             THEN FileFields(Tail(parts), seen)
             ELSE <<p.name>> \o FileFields(Tail(parts), seen \cup {p.name})

RECURSIVE FileNamesOf(_, _)
FileNamesOf(parts, name) ==
    IF parts = <<>> THEN <<>>
    ELSE LET p == Head(parts)
         IN  (IF p.name = name /\ FileName(p) # "" THEN <<FileName(p)>> ELSE <<>>)
             \o FileNamesOf(Tail(parts), name)

\* Form.File: field name -> the file headers of the field, in arrival order.
\* A part without a form name is dropped, a part whose file name is empty
\* is stored as a value, not as a file.
FormFile(parts) ==
    LET fields == FileFields(parts, {})
    IN  [k \in 1..Len(fields) |->
            [name |-> fields[k], fns |-> FileNamesOf(parts, fields[k])]]

NoForm == [set |-> FALSE, file |-> <<>>]

ReadForm(body, pos, boundary) ==
    LET s == ScanParts(body, pos + 1, boundary, <<>>)
    IN  IF s.err # "nil"
        THEN [err |-> s.err, pos |-> s.pos, form |-> NoForm]
        ELSE [err |-> "nil", pos |-> s.pos,
              form |-> [set |-> TRUE, file |-> FormFile(s.parts)]]

-----------------------------------------------------------------------------
(* net/http: Request.ParseMultipartForm and Request.Clone                  *)

NoErr == <<>>

ErrNotMultipart == <<"request Content-Type isn't multipart/form-data">>

ErrMissingBoundary == <<"no multipart boundary param in Content-Type">>

\* params["boundary"]: the set of values under the key (empty: no such key)
BoundaryOf(params) == {kv[2] : kv \in {x \in params : x[1] = "boundary"}}

\* r.ParseMultipartForm(maxMemory) on the request state
\* [hdr, body, pos, form]; it answers [err, pos, form].  A form parsed
\* earlier is kept and nothing is read.  maxMemory only decides whether file
\* contents are kept in memory or in temporary files.
ParseMultipartForm(r) ==
    IF r.form.set THEN [err |-> NoErr, pos |-> r.pos, form |-> r.form]
    ELSE LET v == HeaderGet(r.hdr)
             d == ParseMediaType(v)
         IN  IF v = <<>> \/ d.err # NoMimeErr \/ d.mediatype # FormData
             THEN [err |-> ErrNotMultipart, pos |-> r.pos, form |-> r.form]
             ELSE IF BoundaryOf(d.params) = {}
             THEN [err |-> ErrMissingBoundary, pos |-> r.pos, form |-> r.form]
             ELSE LET b == CHOOSE x \in BoundaryOf(d.params) : TRUE
                      f == ReadForm(r.body, r.pos, b)
                  IN  IF f.err # "nil"
                      THEN [err |-> <<f.err>>, pos |-> f.pos, form |-> r.form]
                      ELSE [err |-> NoErr, pos |-> f.pos, form |-> f.form]

\* fmt.Errorf("error parsing multipart form: %w", err)
Wrap(err) == <<"error parsing multipart form">> \o err

\* the orders in which a range over a Go map of n keys can visit them
Orders(n) == {o \in [1..n -> 1..n] : \A a, b \in 1..n : o[a] = o[b] => a = b}

\* for _, headers := range form.File { for _, header := range headers {...} }
RECURSIVE RangeFile(_, _, _)
RangeFile(file, order, k) ==
    IF k > Len(order) THEN <<>>
    ELSE file[order[k]].fns \o RangeFile(file, order, k + 1)

FileNameLists(file) == {RangeFile(file, o, 1) : o \in Orders(Len(file))}

\* Middleware.inspectMultipartForm: the outcomes of one call on request r.
\* r2 := r.Clone(ctx) copies the request struct and its parsed forms; the
\* Body field is copied as it is, so r2.Body and r.Body are one stream.
\* The deferred r2.Body.Close() closes that stream on every path.  The
\* loop ranges over r.MultipartForm, which r2.ParseMultipartForm never
\* sets: it is the form an earlier handler parsed, or a nil pointer, and
\* the field access on the nil pointer panics.
Middleware_inspectMultipartForm(r) ==
    LET r2 == r
        p == ParseMultipartForm(r2)
    IN  IF p.err # NoErr
        THEN {[panic |-> FALSE, names |-> <<>>, err |-> Wrap(p.err),
               pos |-> p.pos, closed |-> TRUE, form |-> r.form]}
        ELSE IF ~r.form.set
        THEN {[panic |-> TRUE, names |-> <<>>, err |-> NoErr,
               pos |-> p.pos, closed |-> TRUE, form |-> r.form]}
        ELSE {[panic |-> FALSE, names |-> n, err |-> NoErr,
               pos |-> p.pos, closed |-> TRUE, form |-> r.form]
              : n \in FileNameLists(r.form.file)}

\* MultipartInspector.inspectMultipartForm: parses the request itself
MultipartInspector_inspectMultipartForm(r) ==
    LET p == ParseMultipartForm(r)
    IN  IF p.err # NoErr
        THEN {[panic |-> FALSE, names |-> <<>>, err |-> Wrap(p.err),
               pos |-> p.pos, closed |-> r.closed, form |-> p.form]}
        ELSE {[panic |-> FALSE, names |-> n, err |-> NoErr,
               pos |-> p.pos, closed |-> r.closed, form |-> p.form]
              : n \in FileNameLists(p.form.file)}

inspectMultipartForm(v, r) ==
    IF v = "Middleware" THEN Middleware_inspectMultipartForm(r)
    ELSE MultipartInspector_inspectMultipartForm(r)

-----------------------------------------------------------------------------
(* Configurations and requests                                             *)

Variants == {"Middleware", "MultipartInspector"}

\* Middleware.Output; MultipartInspector.LogFile and .Next.  The Middleware
\* gets its next handler from the host with every call, never nil.
Configs(v) ==
    IF v = "Middleware"
    THEN [Output : {"stdout", "stderr", "", "/var/log/upload.log"},
          LogFile : {""}, Next : {"upstream"}]
    ELSE [Output : {""}, LogFile : {"", "/var/log/upload.log"},
          Next : {"nil", "upstream"}]

Methods == {"GET", "POST"}

NextErr == <<"upstream failed">>

\* http.StatusInternalServerError
StatusInternalServerError == 500

MissingNextMessage == "Missing next reverse proxy handler"

\* the request as ServeHTTP receives it.  With upstream set, an earlier
\* handler of the chain has parsed the form: the body is read and
\* r.MultipartForm is populated.
NewRequest(v, method, g, parts, framing, upstream) ==
    LET hdr == Render(g)
        body == MkBody(parts, framing)
        up == ParseMultipartForm([hdr |-> hdr, body |-> body, pos |-> 0,
                                  form |-> NoForm])
    IN  [method |-> method, hgen |-> g, hdr |-> hdr, parts |-> parts,
         framing |-> framing, body |-> body, upstream |-> upstream,
         pos0 |-> IF upstream THEN up.pos ELSE 0,
         pos |-> IF upstream THEN up.pos ELSE 0,
         closed |-> FALSE,
         form |-> IF upstream THEN up.form ELSE NoForm,
         pc |-> IF v = "Middleware" THEN "addr" ELSE "check",
         classified |-> "uncalled", inspected |-> FALSE,
         names |-> <<>>, err |-> NoErr,
         nextCalls |-> 0, nextSaw |-> <<>>, nextReadOk |-> FALSE,
         nextRet |-> NoErr, ret |-> NoErr, status |-> 0, respBody |-> ""]

\* an earlier handler can have parsed the form only if the parse succeeds
CanBeUpstream(g, parts, framing) ==
    ParseMultipartForm([hdr |-> Render(g), body |-> MkBody(parts, framing),
                        pos |-> 0, form |-> NoForm]).err = NoErr

Requests(v, Hdrs, PartSeqs, Frs) ==
    {NewRequest(v, m, g, ps, fr, up) :
        <<m, g, ps, fr, up>> \in
            {t \in Methods \X Hdrs \X PartSeqs \X Frs \X BOOLEAN :
                t[5] => CanBeUpstream(t[2], t[3], t[4])}}

InitWith(n, Hdrs, PartSeqs, Frs) ==
    /\ variant \in Variants
    /\ cfg \in Configs(variant)
    /\ phase = "new"
    /\ w = "nil"
    /\ sink = <<>>
    /\ req \in [1..n -> Requests(variant, Hdrs, PartSeqs, Frs)]

Hdr(shape, typ, sub, par) ==
    [shape |-> shape, typ |-> typ, sub |-> sub, pad |-> FALSE, par |-> par]

HdrFormData == Hdr("type/sub", "multipart", "form-data", "boundary")

HdrMain ==
    { Hdr("absent", "text", "plain", "none"),
      HdrFormData,
      Hdr("type/sub", "multipart", "form-data", "none"),
      Hdr("type/sub", "multipart", "mixed", "boundary") }

\* one request, every body
Init == InitWith(1, HdrMain, SeqsUpTo(PartKinds, MaxParts), Framings)

\* one request, every Content-Type header
InitClassify ==
    InitWith(1, HdrGen,
             {<<[name |-> "f1", hasFn |-> TRUE, fn |-> "a.txt"]>>}, {"ok"})

\* NumRequests requests in flight on the same stage
InitConc ==
    InitWith(NumRequests, {HdrFormData},
             {<<[name |-> "f1", hasFn |-> TRUE, fn |-> "a.txt"]>>},
             {"ok", "mismatch"})

-----------------------------------------------------------------------------
(* Provisioning                                                            *)

\* Middleware.Provision / MultipartInspector.Provision.  os.OpenFile
\* succeeds or fails as the file system decides.
Provision ==
    /\ phase = "new"
    /\ IF variant = "Middleware"
       THEN IF cfg.Output \in {"stdout", "stderr"}
            THEN w' = cfg.Output /\ phase' = "provisioned"
            ELSE w' = w /\ phase' = "refused"
       ELSE IF cfg.LogFile # ""
            THEN \E opened \in BOOLEAN :
                    IF opened THEN w' = "file" /\ phase' = "provisioned"
                    ELSE w' = w /\ phase' = "refused"
            ELSE w' = "stderr" /\ phase' = "provisioned"
    /\ UNCHANGED <<variant, cfg, sink, req>>

\* Middleware.Validate / MultipartInspector.Validate
Validate ==
    /\ phase = "provisioned"
    /\ IF variant = "Middleware" /\ w = "nil"
       THEN phase' = "refused"
       ELSE phase' = "active"
    /\ UNCHANGED <<variant, cfg, w, sink, req>>

-----------------------------------------------------------------------------
(* ServeHTTP, one step per write to the sink and per call it makes         *)

Entry(i, kind, names, err, nl) ==
    [req |-> i, kind |-> kind, names |-> names, err |-> err, nl |-> nl]

Set(i, r) == req' = [req EXCEPT ![i] = r]

\* m.w.Write([]byte(r.RemoteAddr))
WriteRemoteAddr(i) ==
    /\ phase = "active" /\ req[i].pc = "addr"
    /\ sink' = Append(sink, Entry(i, "addr", <<>>, NoErr, FALSE))
    /\ Set(i, [req[i] EXCEPT !.pc = "dot"])
    /\ UNCHANGED <<variant, cfg, phase, w>>

\* fmt.Fprintln(m.w, ".")
WriteDot(i) ==
    /\ phase = "active" /\ req[i].pc = "dot"
    /\ sink' = Append(sink, Entry(i, "dot", <<>>, NoErr, TRUE))
    /\ Set(i, [req[i] EXCEPT !.pc = "check"])
    /\ UNCHANGED <<variant, cfg, phase, w>>

\* if r.Method == http.MethodPost && isMultipart(r) {
\*     fileNames, err := m.inspectMultipartForm(r)
Inspect(i) ==
    LET r == req[i]
    IN  /\ phase = "active" /\ r.pc = "check"
        /\ IF r.method # "POST"
           THEN Set(i, [r EXCEPT !.pc = "forward"])
           ELSE IF ~isMultipart(r.hdr)
           THEN Set(i, [r EXCEPT !.pc = "forward", !.classified = "false"])
           ELSE \E out \in inspectMultipartForm(variant, r) :
                   Set(i, [r EXCEPT !.pc = IF out.panic THEN "panicked" ELSE "report",
                                    !.classified = "true", !.inspected = TRUE,
                                    !.names = out.names, !.err = out.err,
                                    !.pos = out.pos, !.closed = out.closed,
                                    !.form = out.form])
        /\ UNCHANGED <<variant, cfg, phase, w, sink>>

\* the error branch returns the inspection error instead of going on
Report_RejectOnError(i) ==
    LET r == req[i]
    IN  /\ phase = "active" /\ r.pc = "report"
        /\ IF r.err # NoErr
           THEN /\ sink' = Append(sink, Entry(i, "error", <<>>, r.err, TRUE))
                /\ Set(i, [r EXCEPT !.pc = "done", !.ret = r.err])
           ELSE /\ sink' = Append(sink, Entry(i, "files", r.names, NoErr, TRUE))
                /\ Set(i, [r EXCEPT !.pc = "forward"])
        /\ UNCHANGED <<variant, cfg, phase, w>>

\* fmt.Fprintf(m.w, "Error inspecting multipart form: %v\n", err) or
\* fmt.Fprintf(m.w, "Uploaded files: %v\n", fileNames); m.Logger.Printf of
\* the same, one write under the logger's mutex
Report(i) ==
    LET r == req[i]
    IN  /\ phase = "active" /\ r.pc = "report"
        /\ IF r.err # NoErr
           THEN sink' = Append(sink, Entry(i, "error", <<>>, r.err, TRUE))
           ELSE sink' = Append(sink, Entry(i, "files", r.names, NoErr, TRUE))
        /\ Set(i, [r EXCEPT !.pc = "forward"])
        /\ UNCHANGED <<variant, cfg, phase, w>>

\* what the Next Handler finds when it reads r.Body: the bytes after the
\* read position, or a read error on a closed body
CallNext(r, rv) ==
    [r EXCEPT !.pc = "done", !.nextCalls = r.nextCalls + 1,
              !.nextReadOk = ~r.closed,
              !.nextSaw = IF r.closed THEN <<>>
                          ELSE SubSeq(r.body, r.pos + 1, Len(r.body)),
              !.nextRet = rv, !.ret = rv]

\* the Next Handler's error is dropped
Forward_SwallowError(i) ==
    LET r == req[i]
    IN  /\ phase = "active" /\ r.pc = "forward"
        /\ IF variant = "Middleware" \/ cfg.Next # "nil"
           THEN \E rv \in {NoErr, NextErr} :
                   Set(i, [CallNext(r, rv) EXCEPT !.ret = NoErr])
           ELSE Set(i, [r EXCEPT !.pc = "done", !.ret = NoErr,
                                 !.status = StatusInternalServerError,
                                 !.respBody = MissingNextMessage])
        /\ UNCHANGED <<variant, cfg, phase, w, sink>>

\* the missing handler goes unnoticed: nothing is written, nil is returned
Forward_SilentWithoutNext(i) ==
    LET r == req[i]
    IN  /\ phase = "active" /\ r.pc = "forward"
        /\ IF variant = "Middleware" \/ cfg.Next # "nil"
           THEN \E rv \in {NoErr, NextErr} : Set(i, CallNext(r, rv))
           ELSE Set(i, [r EXCEPT !.pc = "done", !.ret = NoErr])
        /\ UNCHANGED <<variant, cfg, phase, w, sink>>

\* return next.ServeHTTP(w, r)   (Middleware)
\* if m.Next != nil { return m.Next.RoundTrip(w, r) } else { 500 }
Forward(i) ==
    LET r == req[i]
    IN  /\ phase = "active" /\ r.pc = "forward"
        /\ IF variant = "Middleware" \/ cfg.Next # "nil"
           THEN \E rv \in {NoErr, NextErr} : Set(i, CallNext(r, rv))
           ELSE Set(i, [r EXCEPT !.pc = "done", !.ret = NoErr,
                                 !.status = StatusInternalServerError,
                                 !.respBody = MissingNextMessage])
        /\ UNCHANGED <<variant, cfg, phase, w, sink>>

Next ==
    \/ Provision
    \/ Validate
    \/ \E i \in DOMAIN req : WriteRemoteAddr(i)
    \/ \E i \in DOMAIN req : WriteDot(i)
    \/ \E i \in DOMAIN req : Inspect(i)
    \/ \E i \in DOMAIN req : Report(i)
    \/ \E i \in DOMAIN req : Forward(i)

Spec == Init /\ [][Next]_vars

SpecClassify == InitClassify /\ [][Next]_vars

SpecConc == InitConc /\ [][Next]_vars

-----------------------------------------------------------------------------
(* Vocabulary of the properties                                            *)

Reqs == DOMAIN req

\* ServeHTTP has ended: it returned, or it panicked
Ended(r) == r.pc \in {"done", "panicked"}

NextConfigured == variant = "Middleware" \/ cfg.Next # "nil"

\* the header the client sent declares boundary "x", the body is framed
\* with it and closed: the client's request is a well-formed form
WellFormed(r) ==
    /\ r.hgen.shape = "type/sub"
    /\ r.hgen.par \in {"boundary", "BOUNDARY", "tight", "charset"}
    /\ r.framing = "ok"

\* the client's request cannot be parsed as a form
Malformed(r) ==
    \/ r.hgen.par \notin {"boundary", "BOUNDARY", "tight", "charset"}
    \/ r.framing \in {"mismatch", "truncated"}

EntriesOf(i) == SelectSeq(sink, LAMBDA e : e.req = i)

LinesOf(i) == SelectSeq(sink, LAMBDA e : e.req = i /\ e.nl)

Count(s, x) == Cardinality({k \in 1..Len(s) : s[k] = x})

\* the file names the parts of a field declare, in arrival order
RECURSIVE Declared(_, _)
Declared(parts, name) ==
    IF parts = <<>> THEN <<>>
    ELSE (IF Head(parts).hasFn /\ Head(parts).name = name
          THEN <<Base(Head(parts).fn)>> ELSE <<>>) \o Declared(Tail(parts), name)

\* s is t with elements left out
RECURSIVE IsSubSeq(_, _)
IsSubSeq(s, t) ==
    IF s = <<>> THEN TRUE
    ELSE IF t = <<>> THEN FALSE
    ELSE IF Head(s) = Head(t) THEN IsSubSeq(Tail(s), Tail(t))
    ELSE IsSubSeq(s, Tail(t))

-----------------------------------------------------------------------------
(* C1: after ServeHTTP handled a multipart POST, the Next Handler reads    *)
(* the whole body: the Inspector consumed no byte of the forwarded body.   *)
C1_BodyUnreadForNext ==
    \A i \in Reqs :
        (req[i].pc = "done" /\ req[i].inspected /\ req[i].nextCalls = 1) =>
            /\ req[i].pos = req[i].pos0
            /\ req[i].nextReadOk
            /\ req[i].nextSaw = SubSeq(req[i].body, req[i].pos0 + 1, Len(req[i].body))

(* C2: one call of ServeHTTP invokes the configured Next Handler exactly   *)
(* once, whatever the method, Content-Type and inspection outcome, after   *)
(* any inspection and reporting.                                           *)
C2_NextInvokedExactlyOnce ==
    \A i \in Reqs :
        (Ended(req[i]) /\ NextConfigured) =>
            /\ req[i].nextCalls = 1
            /\ req[i].inspected => Len(LinesOf(i)) >= 1

(* C3: for a well-formed multipart body inspectMultipartForm returns no    *)
(* error and a list holding the declared file name of every file part,     *)
(* duplicates and empty names included, parts of one field in arrival      *)
(* order; file parts a.txt then b.png give <<a.txt, b.png>>.               *)
C3_WellFormedBodyYieldsAllFileNames ==
    \A i \in Reqs :
        (req[i].inspected /\ WellFormed(req[i])) =>
            /\ req[i].pc # "panicked"
            /\ req[i].err = NoErr
            /\ \A p \in {req[i].parts[k] : k \in 1..Len(req[i].parts)} :
                  p.hasFn =>
                      /\ Count(req[i].names, Base(p.fn))
                            >= Count([k \in 1..Len(req[i].parts) |->
                                       IF req[i].parts[k].hasFn
                                       THEN Base(req[i].parts[k].fn) ELSE "-"],
                                     Base(p.fn))
                      /\ IsSubSeq(Declared(req[i].parts, p.name), req[i].names)
            /\ (Len(req[i].parts) = 2
                /\ req[i].parts[1].fn = "a.txt" /\ req[i].parts[2].fn = "b.png")
               => req[i].names = <<"a.txt", "b.png">>

(* C4: when parsing the body fails, inspectMultipartForm returns no file   *)
(* names and an error wrapping the parse error, ServeHTTP writes the error *)
(* to the sink, and goes on to the forwarding step: the failure never      *)
(* makes it return without forwarding (a stage without a Next Handler      *)
(* answers as it does for every request, see C5).                          *)
C4_InspectionFailureIsReportedAndForwarded ==
    \A i \in Reqs :
        LET r == req[i]
        IN  /\ (r.inspected /\ Malformed(r) /\ ~r.upstream) => r.err # NoErr
            /\ (r.inspected /\ r.err # NoErr) =>
                  /\ r.names = <<>>
                  /\ Len(r.err) > 1 /\ Head(r.err) = "error parsing multipart form"
                  /\ r.pc \in {"report", "forward", "done"}
                  /\ r.pc \in {"forward", "done"} =>
                        \E k \in 1..Len(sink) :
                            sink[k] = Entry(i, "error", <<>>, r.err, TRUE)
                  /\ r.pc = "done" =>
                        IF NextConfigured
                        THEN r.nextCalls = 1 /\ r.ret = r.nextRet
                        ELSE r.status = StatusInternalServerError

C4_Witness ==
    \E i \in Reqs :
        /\ req[i].inspected /\ req[i].framing = "mismatch"
        /\ req[i].err = Wrap(<<"multipart: NextPart: EOF">>)
        /\ req[i].pc = "done" /\ req[i].nextCalls = 1
        /\ Len(LinesOf(i)) >= 1

(* C5: with no Next Handler configured, ServeHTTP calls no handler for any *)
(* request and answers with a server-side fault: it is always at a step    *)
(* of ServeHTTP that can be taken or has returned, it does not panic, and  *)
(* it does not return an empty successful response.                        *)
C5_NoNextHandlerIsAServerFault ==
    \A i \in Reqs :
        (phase = "active" /\ ~NextConfigured) =>
            /\ req[i].nextCalls = 0
            /\ req[i].pc \in {"check", "report", "forward", "done"}
            /\ req[i].pc = "done" =>
                  /\ req[i].status = StatusInternalServerError
                  /\ req[i].respBody = MissingNextMessage

C5_Witness ==
    \E i \in Reqs :
        /\ cfg.Next = "nil" /\ req[i].pc = "done" /\ req[i].inspected
        /\ req[i].status = StatusInternalServerError

(* C6: isMultipart is true exactly for a present, non-empty Content-Type   *)
(* that follows the media-type grammar and whose type, in any letter case, *)
(* is multipart/form-data, with any parameters; false for a missing, empty *)
(* or unparseable header and for every other type, multipart/mixed too.    *)
ExpectMultipart(g) ==
    /\ g.shape = "type/sub"
    /\ g.typ \in {"multipart", "Multipart", "MULTIPART"}
    /\ g.sub \in {"form-data", "Form-Data", "FORM-DATA"}
    /\ g.par \in ValidPars

C6_IsMultipartIffFormData ==
    \A i \in Reqs :
        /\ req[i].classified \in {"uncalled", "true", "false"}
        /\ req[i].classified # "uncalled" =>
              ((req[i].classified = "true") <=> ExpectMultipart(req[i].hgen))
        /\ (req[i].method = "POST" /\ req[i].pc \notin {"addr", "dot", "check"}) =>
              req[i].classified # "uncalled"

C6_Witness ==
    \E i \in Reqs :
        /\ req[i].classified = "true"
        /\ req[i].hgen.typ = "MULTIPART" /\ req[i].hgen.sub = "Form-Data"
        /\ req[i].hgen.pad /\ req[i].hgen.par = "charset"

(* C7: the sink is written and the body is read only for POST requests     *)
(* classified multipart/form-data: every other request leaves the sink     *)
(* unchanged and the body unread, every inspected one adds exactly one line.*)
C7_SinkWrittenOnlyForInspectedRequests ==
    \A i \in Reqs :
        /\ req[i].inspected =>
              (req[i].method = "POST" /\ ExpectMultipart(req[i].hgen))
        /\ Ended(req[i]) =>
              IF req[i].inspected
              THEN Len(EntriesOf(i)) = 1 /\ Len(LinesOf(i)) = 1
              ELSE Len(EntriesOf(i)) = 0 /\ req[i].pos = req[i].pos0

(* C8: with requests handled concurrently, what one request writes to the  *)
(* sink is contiguous, never interleaved with the output of another.       *)
C8_SinkOutputContiguous ==
    \A a, b, c \in 1..Len(sink) :
        (a < b /\ b < c /\ sink[a].req = sink[c].req) => sink[b].req = sink[a].req

(* C9: what ServeHTTP returns is what the Next Handler returned, whether   *)
(* the request was not inspected, inspected, or its inspection failed: an  *)
(* inspection error is never returned, a Next Handler error never dropped. *)
C9_ReturnsNextHandlersValue ==
    \A i \in Reqs :
        req[i].pc = "done" =>
            IF NextConfigured
            THEN req[i].nextCalls = 1 /\ req[i].ret = req[i].nextRet
            ELSE req[i].nextCalls = 0 /\ req[i].ret = NoErr

C9_Witness ==
    \E i \in Reqs :
        /\ req[i].pc = "done" /\ req[i].inspected /\ req[i].err # NoErr
        /\ req[i].nextRet = NextErr /\ req[i].ret = NextErr

(* C10: Provision and Validate succeed only with a valid sink target and a *)
(* Next Handler: whenever the stage is active its sink writer and its Next *)
(* Handler are non-nil.                                                    *)
C10_ActiveImpliesSinkAndNext ==
    phase = "active" => (w # "nil" /\ NextConfigured)

=============================================================================
